---------------------------- MODULE Spec2Model ----------------------------
(***************************************************************************)
(* Model of x509-certificate/src/asn1time.rs: the ASN.1 UTCTime and        *)
(* GeneralizedTime codecs and the Time union that dispatches on the tag.   *)
(*                                                                         *)
(* A content is a sequence of bytes; a byte is written as a one-character  *)
(* string, and the string "xFF" stands for a byte that is not valid UTF-8. *)
(* An instant (chrono::DateTime<Utc>) is a record of its calendar fields   *)
(* and its nanosecond part; as in chrono, a leap second is second 59 with  *)
(* a nanosecond part of 1_000_000_000 or more.                             *)
(***************************************************************************)
EXTENDS Integers, Sequences, FiniteSets, TLC

VARIABLES tag, data, time, out, pc

vars == <<tag, data, time, out, pc>>

-----------------------------------------------------------------------------
(* Bytes and text                                                          *)

DigitChars == <<"0", "1", "2", "3", "4", "5", "6", "7", "8", "9">>

Digits == {DigitChars[i] : i \in 1..10}

IsDigit(c) == c \in Digits

DigitVal(c) == (CHOOSE i \in 1..10 : DigitChars[i] = c) - 1

BadByte == "xFF"

\* &data[a..b]: bytes a (inclusive) to b (exclusive), counted from 0.
Slice(s, a, b) == SubSeq(s, a + 1, b)

\* s[1..] on a sequence.
Rest(s, n) == SubSeq(s, n + 1, Len(s))

\* std::str::from_utf8 succeeds when no byte is invalid.
from_utf8_ok(s) == \A i \in 1..Len(s) : s[i] # BadByte

AllDigits(s) == \A i \in 1..Len(s) : IsDigit(s[i])

RECURSIVE DecimalValue(_)
\* The value of a run of decimal digits that fits the integer type.
DecimalValue(s) ==
    IF s = <<>> THEN 0
    ELSE DecimalValue(SubSeq(s, 1, Len(s) - 1)) * 10 + DigitVal(s[Len(s)])

Err == [ok |-> FALSE, v |-> 0]

Ok(n) == [ok |-> TRUE, v |-> n]

\* i32::from_str on a two-byte field: an optional '+' or '-' sign, then
\* one or more decimal digits.
i32_from_str(s) ==
    IF s = <<>> THEN Err
    ELSE IF s[1] \in {"+", "-"} /\ Len(s) = 1 THEN Err
    ELSE IF s[1] = "+" THEN
        (IF AllDigits(Rest(s, 1)) THEN Ok(DecimalValue(Rest(s, 1))) ELSE Err)
    ELSE IF s[1] = "-" THEN
        (IF AllDigits(Rest(s, 1)) THEN Ok(0 - DecimalValue(Rest(s, 1))) ELSE Err)
    ELSE IF AllDigits(s) THEN Ok(DecimalValue(s)) ELSE Err

\* u32::from_str: an optional '+' sign, then one or more decimal digits.
u32_from_str(s) ==
    IF s = <<>> THEN Err
    ELSE IF s[1] \in {"+", "-"} /\ Len(s) = 1 THEN Err
    ELSE IF s[1] = "+" THEN
        (IF AllDigits(Rest(s, 1)) THEN Ok(DecimalValue(Rest(s, 1))) ELSE Err)
    ELSE IF AllDigits(s) THEN Ok(DecimalValue(s)) ELSE Err

\* The field &data[a..b] read as text and parsed; Malformed when the slice
\* is not UTF-8 or does not parse.
i32_field(d, a, b) ==
    IF from_utf8_ok(Slice(d, a, b)) THEN i32_from_str(Slice(d, a, b)) ELSE Err

u32_field(d, a, b) ==
    IF from_utf8_ok(Slice(d, a, b)) THEN u32_from_str(Slice(d, a, b)) ELSE Err

\* Rust's % on i32: the remainder takes the sign of the dividend.
RustRem(a, b) == IF a >= 0 THEN a % b ELSE 0 - ((0 - a) % b)

RECURSIVE DecimalDigits(_)
\* The decimal digits of a natural number, without padding.
DecimalDigits(n) ==
    IF n < 10 THEN <<DigitChars[n + 1]>>
    ELSE DecimalDigits(n \div 10) \o <<DigitChars[(n % 10) + 1]>>

RECURSIVE Zeros(_)
Zeros(n) == IF n <= 0 THEN <<>> ELSE <<"0">> \o Zeros(n - 1)

\* format!("{:0w}", n) on an integer: sign first, then zeros up to a
\* minimum total width of w; never truncated.
FormatZeroPad(n, w) ==
    IF n >= 0
    THEN Zeros(w - Len(DecimalDigits(n))) \o DecimalDigits(n)
    ELSE <<"-">> \o Zeros(w - 1 - Len(DecimalDigits(0 - n))) \o DecimalDigits(0 - n)

-----------------------------------------------------------------------------
(* Instants                                                                *)

NoInstant ==
    [year |-> 0, month |-> 0, day |-> 0, hour |-> 0, minute |-> 0,
     second |-> 0, nano |-> 0]

Malformed == [ok |-> FALSE, dt |-> NoInstant]

Decoded(dt) == [ok |-> TRUE, dt |-> dt]

IsLeapYear(y) == (y % 4 = 0 /\ y % 100 # 0) \/ y % 400 = 0

DaysInMonth(y, m) ==
    IF m = 2 THEN (IF IsLeapYear(y) THEN 29 ELSE 28)
    ELSE IF m \in {4, 6, 9, 11} THEN 30 ELSE 31

\* The range of years of chrono::NaiveDate.
MAX_YEAR == 262143

MIN_YEAR == -262144

\* chrono::Utc.ymd_opt(year, month, day) is LocalResult::Single exactly
\* when the triple is a date of the proleptic Gregorian calendar.
ymd_opt(y, m, d) ==
    /\ MIN_YEAR <= y /\ y <= MAX_YEAR
    /\ 1 <= m /\ m <= 12
    /\ 1 <= d /\ d <= DaysInMonth(y, m)

\* Date::and_hms_opt(hour, minute, second) is Some for a time of day.
and_hms_opt(h, m, s) == h < 24 /\ m < 60 /\ s < 60

-----------------------------------------------------------------------------
(* UtcTime                                                                 *)

\* "YYMMDDHHMMSSZ".len()
UTC_LEN == 13

\* let year = if year >= 50 { year + 1900 } else { year + 2000 };
InferCentury_off_by_one(year) == IF year > 50 THEN year + 1900 ELSE year + 2000

InferCentury(year) == IF year >= 50 THEN year + 1900 ELSE year + 2000

UtcTime_from_primitive(d) ==
    IF Len(d) # UTC_LEN THEN Malformed
    ELSE
        LET year   == i32_field(d, 0, 2)
            month  == u32_field(d, 2, 4)
            day    == u32_field(d, 4, 6)
            hour   == u32_field(d, 6, 8)
            minute == u32_field(d, 8, 10)
            second == u32_field(d, 10, 12)
        IN  IF ~(year.ok /\ month.ok /\ day.ok /\ hour.ok /\ minute.ok /\ second.ok)
            THEN Malformed
            ELSE IF d[13] # "Z" THEN Malformed
            ELSE IF ~ymd_opt(InferCentury(year.v), month.v, day.v) THEN Malformed
            ELSE IF ~and_hms_opt(hour.v, minute.v, second.v) THEN Malformed
            ELSE Decoded([year |-> InferCentury(year.v), month |-> month.v,
                          day |-> day.v, hour |-> hour.v, minute |-> minute.v,
                          second |-> second.v, nano |-> 0])

\* A to_string that forgets the zero padding of the fields.
UtcTime_to_string_unpadded(dt) ==
    FormatZeroPad(RustRem(dt.year, 100), 1) \o FormatZeroPad(dt.month, 1)
        \o FormatZeroPad(dt.day, 1) \o FormatZeroPad(dt.hour, 1)
        \o FormatZeroPad(dt.minute, 1) \o FormatZeroPad(dt.second, 1) \o <<"Z">>

\* format!("{:02}{:02}{:02}{:02}{:02}{:02}Z", year % 100, month, ...)
UtcTime_to_string(dt) ==
    FormatZeroPad(RustRem(dt.year, 100), 2) \o FormatZeroPad(dt.month, 2)
        \o FormatZeroPad(dt.day, 2) \o FormatZeroPad(dt.hour, 2)
        \o FormatZeroPad(dt.minute, 2) \o FormatZeroPad(dt.second, 2) \o <<"Z">>

\* PrimitiveContent for UtcTime
UtcTime_encoded_len(dt) == Len(UtcTime_to_string(dt))

UtcTime_write_encoded(dt) == UtcTime_to_string(dt)

-----------------------------------------------------------------------------
(* chrono::NaiveDateTime::parse_from_str                                   *)

\* str::trim_left: leading white space is dropped.
RECURSIVE trim_left(_)
trim_left(s) == IF s # <<>> /\ s[1] = " " THEN trim_left(Rest(s, 1)) ELSE s

\* The largest value the scanner tracks exactly; a longer run of digits is
\* out of the range of every field.
SCAN_LIMIT == 100000000

ScanErr == [ok |-> FALSE, v |-> 0, rest |-> <<>>]

RECURSIVE ScanDigits(_, _, _, _, _)
\* The loop of chrono's scan::number: consume up to max digits, at least min.
ScanDigits(s, i, n, min, max) ==
    IF i >= max \/ i >= Len(s) THEN [ok |-> TRUE, v |-> n, rest |-> Rest(s, i)]
    ELSE IF ~IsDigit(s[i + 1]) THEN
        (IF i < min THEN ScanErr ELSE [ok |-> TRUE, v |-> n, rest |-> Rest(s, i)])
    ELSE IF n >= SCAN_LIMIT THEN ScanErr
    ELSE ScanDigits(s, i + 1, n * 10 + DigitVal(s[i + 1]), min, max)

\* scan::number(s, min, max)
scan_number(s, min, max) ==
    IF Len(s) < min THEN ScanErr ELSE ScanDigits(s, 0, 0, min, max)

\* A width that no input reaches (usize::MAX in the source).
NO_LIMIT == 1000

\* Item::Numeric: white space is skipped; a signed field (the year) takes an
\* explicit sign and then digits without a width limit, any other field at
\* most `width` digits.
parse_numeric(s0, width, signed) ==
    LET s == trim_left(s0) IN
    IF signed /\ s # <<>> /\ s[1] = "-" THEN
        LET r == scan_number(Rest(s, 1), 1, NO_LIMIT)
        IN  [ok |-> r.ok, v |-> 0 - r.v, rest |-> r.rest]
    ELSE IF signed /\ s # <<>> /\ s[1] = "+" THEN scan_number(Rest(s, 1), 1, NO_LIMIT)
    ELSE scan_number(s, 1, width)

\* Item::Literal(".")
parse_literal(s, c) ==
    IF s # <<>> /\ s[1] = c THEN [ok |-> TRUE, v |-> 0, rest |-> Rest(s, 1)]
    ELSE ScanErr

\* Fixed::Nanosecond9NoDot (%9f): exactly nine digits.
parse_nanosecond9(s) == IF Len(s) < 9 THEN ScanErr ELSE scan_number(s, 9, 9)

\* Parsed::to_naive_time: hour 0..23, minute 0..59, second 0..59, or second
\* 60 as a leap second (second 59 with one more second of nanoseconds).
to_naive_time_ok(h, m, s) == h < 24 /\ m < 60 /\ s <= 60

LEAP_NANO == 1000000000

\* The items of "%Y%m%d%H%M%S" and of "%Y%m%d%H%M%S.%9f".
FORMAT_SECONDS == <<"%Y", "%m", "%d", "%H", "%M", "%S">>

FORMAT_NANOS == <<"%Y", "%m", "%d", "%H", "%M", "%S", ".", "%9f">>

\* One item of the format applied to the text that is left.
parse_item(s, item) ==
    IF item = "%Y" THEN parse_numeric(s, 4, TRUE)
    ELSE IF item = "." THEN parse_literal(s, ".")
    ELSE IF item = "%9f" THEN parse_nanosecond9(s)
    ELSE parse_numeric(s, 2, FALSE)

RECURSIVE parse_items(_, _, _)
\* format::parse: the items are applied in order, each to what the one
\* before left; text left over after the last item is an error.  The
\* result holds the values the items set, in order.
parse_items(s, items, values) ==
    IF items = <<>> THEN [ok |-> s = <<>>, v |-> values, rest |-> s]
    ELSE LET r == parse_item(s, Head(items))
         IN  IF ~r.ok THEN [ok |-> FALSE, v |-> values, rest |-> <<>>]
             ELSE parse_items(r.rest, Tail(items), Append(values, r.v))

\* Parsed::to_naive_datetime_with_offset on the values set: year, month,
\* day, hour, minute, second and, last, the literal's 0 and the nanoseconds.
to_naive_datetime(f) ==
    IF ~ymd_opt(f[1], f[2], f[3]) THEN Malformed
    ELSE IF ~to_naive_time_ok(f[4], f[5], f[6]) THEN Malformed
    ELSE Decoded([year |-> f[1], month |-> f[2], day |-> f[3], hour |-> f[4],
                  minute |-> f[5],
                  second |-> IF f[6] = 60 THEN 59 ELSE f[6],
                  nano |-> (IF f[6] = 60 THEN LEAP_NANO ELSE 0)
                              + (IF Len(f) = 8 THEN f[8] ELSE 0)])

\* NaiveDateTime::parse_from_str(s, fmt)
parse_from_str(s, fmt) ==
    LET p == parse_items(s, fmt, <<>>)
    IN  IF p.ok THEN to_naive_datetime(p.v) ELSE Malformed

-----------------------------------------------------------------------------
(* GeneralizedTime                                                         *)

\* let mandatory_len = "YYYYMMDDHHMMSSZ".len();
mandatory_len == 15

\* The width of "YYYYMMDDHHMMSS.sssssssss" in format!("{:0<24}", date_str).
PAD_WIDTH == 24

\* format!("{:0<24}", date_str): zeros are appended up to a width of 24; a
\* longer text is left as it is.
pad_fraction(date_str) == date_str \o Zeros(PAD_WIDTH - Len(date_str))

\* A decoder that drops the fraction from the value it builds.
GeneralizedTime_from_primitive_whole_seconds(d) ==
    IF Len(d) < mandatory_len \/ d[Len(d)] # "Z" THEN Malformed
    ELSE
        LET date_str == Slice(d, 0, Len(d) - 1)
            r == IF Len(d) = mandatory_len THEN parse_from_str(date_str, FORMAT_SECONDS)
                 ELSE parse_from_str(pad_fraction(date_str), FORMAT_NANOS)
        IN  IF ~from_utf8_ok(date_str) THEN Malformed
            ELSE IF ~r.ok THEN Malformed
            ELSE Decoded([r.dt EXCEPT !.nano = (r.dt.nano \div LEAP_NANO) * LEAP_NANO])

GeneralizedTime_from_primitive(d) ==
    IF Len(d) < mandatory_len \/ d[Len(d)] # "Z" THEN Malformed
    ELSE
        LET date_str == Slice(d, 0, Len(d) - 1)
        IN  IF ~from_utf8_ok(date_str) THEN Malformed
            ELSE IF Len(d) = mandatory_len THEN parse_from_str(date_str, FORMAT_SECONDS)
            ELSE parse_from_str(pad_fraction(date_str), FORMAT_NANOS)

\* format!("{:04}{:02}{:02}{:02}{:02}{:02}Z", year, month, day, ...)
GeneralizedTime_to_string(dt) ==
    FormatZeroPad(dt.year, 4) \o FormatZeroPad(dt.month, 2)
        \o FormatZeroPad(dt.day, 2) \o FormatZeroPad(dt.hour, 2)
        \o FormatZeroPad(dt.minute, 2) \o FormatZeroPad(dt.second, 2) \o <<"Z">>

\* PrimitiveContent for GeneralizedTime
GeneralizedTime_encoded_len(dt) == Len(GeneralizedTime_to_string(dt))

GeneralizedTime_write_encoded(dt) == GeneralizedTime_to_string(dt)

-----------------------------------------------------------------------------
(* Time                                                                    *)

Tags == {"UTC_TIME", "GENERALIZED_TIME", "INTEGER"}

NoTime == [kind |-> "None", dt |-> NoInstant]

MalformedTime == [kind |-> "Malformed", dt |-> NoInstant]

\* A dispatch that looks at the shape of the content instead of the tag.
Time_take_from_by_shape(t, d) ==
    IF t \notin {"UTC_TIME", "GENERALIZED_TIME"} THEN MalformedTime
    ELSE IF Len(d) = UTC_LEN THEN
        LET r == UtcTime_from_primitive(d)
        IN  IF r.ok THEN [kind |-> "UtcTime", dt |-> r.dt] ELSE MalformedTime
    ELSE
        LET r == GeneralizedTime_from_primitive(d)
        IN  IF r.ok THEN [kind |-> "GeneralTime", dt |-> r.dt] ELSE MalformedTime

\* Time::take_from: the tag alone selects the decoder.
Time_take_from(t, d) ==
    IF t = "UTC_TIME" THEN
        LET r == UtcTime_from_primitive(d)
        IN  IF r.ok THEN [kind |-> "UtcTime", dt |-> r.dt] ELSE MalformedTime
    ELSE IF t = "GENERALIZED_TIME" THEN
        LET r == GeneralizedTime_from_primitive(d)
        IN  IF r.ok THEN [kind |-> "GeneralTime", dt |-> r.dt] ELSE MalformedTime
    ELSE MalformedTime

NoOutput == [tag |-> "NONE", bytes |-> <<>>, len |-> 0]

\* Time::encode_ref: the stored variant is encoded under its own tag;
\* len is encoded_len and bytes what write_encoded writes.
Time_encode_ref(t) ==
    IF t.kind = "UtcTime" THEN
        [tag |-> "UTC_TIME", bytes |-> UtcTime_write_encoded(t.dt),
         len |-> UtcTime_encoded_len(t.dt)]
    ELSE
        [tag |-> "GENERALIZED_TIME", bytes |-> GeneralizedTime_write_encoded(t.dt),
         len |-> GeneralizedTime_encoded_len(t.dt)]

\* impl From<chrono::DateTime<chrono::Utc>> for Time
Time_from(i) == [kind |-> "UtcTime", dt |-> i]

\* UtcTime::now(): the reading of the clock is wrapped as it is.
UtcTime_now(clock) == [kind |-> "UtcTime", dt |-> clock]

\* AsRef<chrono::DateTime<chrono::Utc>> for Time, and Deref of both leaves.
Time_as_ref(t) == t.dt

-----------------------------------------------------------------------------
(* The inputs the operations are applied to                                *)

\* The largest number of fraction digits in the contents tried.
MaxFrac == 11

Two(n) == FormatZeroPad(n, 2)

Four(n) == FormatZeroPad(n, 4)

TimesOfDay ==
    {Two(h) \o Two(mi) \o Two(sc) :
        h \in {0, 23, 24}, mi \in {0, 59, 60}, sc \in {0, 59, 60}}

MonthsAndDays ==
    {Two(m) \o Two(d) : m \in {0, 1, 2, 4, 12, 13}, d \in {0, 1, 28, 29, 30, 31, 32}}

\* Thirteen bytes of digits and 'Z': every mix of valid and invalid fields.
UtcContents ==
    {Two(y) \o md \o t \o <<"Z">> :
        y \in {0, 23, 24, 49, 50, 99}, md \in MonthsAndDays, t \in TimesOfDay}

\* Fifteen bytes of digits and 'Z'.
GeneralizedContents ==
    {Four(y) \o md \o t \o <<"Z">> :
        y \in {0, 1900, 2000, 2023, 2024, 9999}, md \in MonthsAndDays, t \in TimesOfDay}

RECURSIVE CountingDigits(_)
\* "1234567891234...": n digits, none of them zero.
CountingDigits(n) ==
    IF n = 0 THEN <<>> ELSE CountingDigits(n - 1) \o <<DigitChars[((n - 1) % 9) + 2]>>

FractionDigits ==
    {Zeros(n) : n \in 0..MaxFrac} \cup {CountingDigits(n) : n \in 0..MaxFrac}
        \cup {Zeros(n) \o <<"5">> : n \in 0..(MaxFrac - 1)}

FractionPrefixes ==
    {Four(y) \o Two(m) \o Two(d) \o Two(14) \o Two(30) \o Two(sc) :
        y \in {2023, 2024}, m \in {2, 6}, d \in {15, 29, 30}, sc \in {0, 59, 60}}

\* A fourteen-digit prefix, '.', zero or more digits and 'Z'.
FractionContents ==
    {p \o <<".">> \o f \o <<"Z">> : p \in FractionPrefixes, f \in FractionDigits}

OddBytes == {"+", "-", " ", "a", ".", "Z", BadByte}

BaseContents ==
    { <<"2","3","0","6","1","5","1","4","3","0","0","0","Z">>,
      <<"2","0","2","3","0","6","1","5","1","4","3","0","0","0","Z">>,
      <<"2","0","2","3","0","6","1","5","1","4","3","0","0","0",".","2","5","Z">> }

\* A well-formed content with one byte replaced.
OneByteChanged ==
    UNION {{[b EXCEPT ![i] = c] : i \in 1..Len(b), c \in OddBytes} : b \in BaseContents}

\* A well-formed content cut short, or with one more byte at its end.
OtherLengths ==
    UNION {{SubSeq(b, 1, n) : n \in 0..Len(b)} : b \in BaseContents}
        \cup {b \o <<c>> : b \in BaseContents, c \in {"0", "Z"}}

\* Contents in which chrono's numeric fields are signed or padded with
\* white space.
SpacedContents ==
    { <<"2","0","2","3"," ","6"," ","5"," ","1"," ","2"," ","3","Z">>,
      <<"+","9","9","9"," ","1"," ","1"," ","1"," ","1"," ","1","Z">>,
      <<"-","9","9","9"," ","1"," ","1"," ","1"," ","1"," ","1","Z">>,
      <<" ","2","0","2","3","0","6","1","5","1","4","3","0","0","0",".",
        "1","2","3","4","5","6","7","8","9","Z">>,
      <<"+","1","2","3","4","5"," ","1"," ","1"," ","1"," ","1"," ","1",".",
        "1","2","3","4","5","6","7","8","9","Z">>,
      <<"+","1","2","3","4","5","6","7","8","9","0","1","2","3","Z">> }

Contents ==
    UtcContents \cup GeneralizedContents \cup FractionContents
        \cup OneByteChanged \cup OtherLengths \cup SpacedContents

\* Instants a caller can hand to Time::from: any valid date and time,
\* years before 1950, after 2049 and before year 0 among them.
Instants ==
    {[year |-> y, month |-> md[1], day |-> md[2], hour |-> t[1], minute |-> t[2],
      second |-> t[3], nano |-> t[4]] :
        y \in {-2024, -15, -5, 0, 1949, 1950, 1999, 2000, 2024, 2049, 2050, 12345},
        md \in {<<1, 1>>, <<6, 15>>, <<12, 31>>},
        t \in {<<0, 0, 0, 0>>, <<14, 30, 5, 250000000>>, <<23, 59, 59, 1000000000>>}}

\* Readings of the wall clock.
ClockReadings == {i \in Instants : i.year >= 2000}

-----------------------------------------------------------------------------
(* The operations                                                          *)

Init ==
    /\ tag = "NONE"
    /\ data = <<>>
    /\ time = NoTime
    /\ out = NoOutput
    /\ pc = "idle"

\* Time::take_from on a primitive with tag t and content c.
TakeFrom(t, c) ==
    /\ pc = "idle"
    /\ tag' = t
    /\ data' = c
    /\ time' = Time_take_from(t, c)
    /\ pc' = IF Time_take_from(t, c).kind = "Malformed" THEN "failed" ELSE "decoded"
    /\ UNCHANGED out

\* Time::from(instant)
FromDateTime(i) ==
    /\ pc = "idle"
    /\ time' = Time_from(i)
    /\ pc' = "converted"
    /\ UNCHANGED <<tag, data, out>>

\* UtcTime::now()
Now(clock) ==
    /\ pc = "idle"
    /\ time' = UtcTime_now(clock)
    /\ pc' = "now"
    /\ UNCHANGED <<tag, data, out>>

\* Time::encode_ref and the writing of the value it returns.
EncodeRef ==
    /\ pc \in {"decoded", "converted", "now"}
    /\ out' = Time_encode_ref(time)
    /\ pc' = "encoded"
    /\ UNCHANGED <<tag, data, time>>

\* The operations that start from nothing, each on any of its inputs.
Decode == pc = "idle" /\ \E t \in Tags, c \in Contents : TakeFrom(t, c)

Convert == pc = "idle" /\ \E i \in Instants : FromDateTime(i)

ReadClock == pc = "idle" /\ \E clock \in ClockReadings : Now(clock)

Next == Decode \/ Convert \/ ReadClock \/ EncodeRef

Spec == Init /\ [][Next]_vars

-----------------------------------------------------------------------------
(* What the properties speak of                                            *)

UTC == "UTC_TIME"

GEN == "GENERALIZED_TIME"

\* ^[0-9]{12}Z$
MatchesUtcGrammar(d) ==
    Len(d) = 13 /\ AllDigits(SubSeq(d, 1, 12)) /\ d[13] = "Z"

\* ^[0-9]{14}\.[0-9]+Z$ : a fourteen-digit prefix and a fraction of one or
\* more digits.
MatchesFractionGrammar(d) ==
    /\ Len(d) >= 17
    /\ AllDigits(SubSeq(d, 1, 14))
    /\ d[15] = "."
    /\ AllDigits(SubSeq(d, 16, Len(d) - 1))
    /\ d[Len(d)] = "Z"

\* ^[0-9]{14}(\.[0-9]+)?Z$
MatchesGeneralizedGrammar(d) ==
    \/ Len(d) = 15 /\ AllDigits(SubSeq(d, 1, 14)) /\ d[15] = "Z"
    \/ MatchesFractionGrammar(d)

\* The number written in bytes a..b (counted from 1) of a content.
Field(d, a, b) == DecimalValue(SubSeq(d, a, b))

CivilDate(y, m, dd) == m \in 1..12 /\ dd >= 1 /\ dd <= DaysInMonth(y, m)

TimeOfDay(h, m, sc) == h \in 0..23 /\ m \in 0..59 /\ sc \in 0..59

RolloverYear(yy) == IF yy >= 50 THEN 1900 + yy ELSE 2000 + yy

ValidUtcFields(d) ==
    /\ CivilDate(RolloverYear(Field(d, 1, 2)), Field(d, 3, 4), Field(d, 5, 6))
    /\ TimeOfDay(Field(d, 7, 8), Field(d, 9, 10), Field(d, 11, 12))

ValidGeneralizedFields(d) ==
    /\ CivilDate(Field(d, 1, 4), Field(d, 5, 6), Field(d, 7, 8))
    /\ TimeOfDay(Field(d, 9, 10), Field(d, 11, 12), Field(d, 13, 14))

\* The digits between the first '.' of a content and its last byte.
FractionOf(d) ==
    LET i == CHOOSE k \in 1..Len(d) : d[k] = "." /\ \A j \in 1..(k - 1) : d[j] # "."
    IN  SubSeq(d, i + 1, Len(d) - 1)

\* The content with its '.' and fraction removed.
WithoutFraction(d) ==
    LET i == CHOOSE k \in 1..Len(d) : d[k] = "." /\ \A j \in 1..(k - 1) : d[j] # "."
    IN  SubSeq(d, 1, i - 1) \o <<"Z">>

\* A fraction of at most nine digits read as nanoseconds.
FractionNanos(f) == DecimalValue(f \o Zeros(9 - Len(f)))

-----------------------------------------------------------------------------
(* Properties                                                              *)

\* C1: a 13-byte content of twelve digits and 'Z' with a valid date and
\* time of day is decoded by UtcTime::from_primitive, and to_string of the
\* decoded value gives the content back byte for byte.
UtcRoundTrip ==
    (tag = UTC /\ MatchesUtcGrammar(data) /\ ValidUtcFields(data)) =>
        /\ time.kind = "UtcTime"
        /\ UtcTime_to_string(time.dt) = data
        /\ pc = "encoded" => out.bytes = data

UtcRoundTripReached ==
    /\ tag = UTC /\ MatchesUtcGrammar(data) /\ ValidUtcFields(data)
    /\ pc = "encoded" /\ out.bytes = data

\* C2: whatever content GeneralizedTime::from_primitive accepts, the
\* encoding of the decoded value is 15 bytes long and is the first 14 bytes
\* of the content followed by 'Z'.  Stated here for the accepted contents
\* that have the documented shape, fourteen digits, an optional fraction
\* and 'Z'.
GeneralizedCanonicalReencoding ==
    (tag = GEN /\ pc = "encoded" /\ MatchesGeneralizedGrammar(data)) =>
        /\ out.len = 15
        /\ Len(out.bytes) = 15
        /\ out.bytes = SubSeq(data, 1, 14) \o <<"Z">>

\* C3: a content YYYYMMDDHHMMSS '.' d1..dn 'Z' with valid fields is accepted
\* for every n >= 1: for n up to 9 with the fraction padded to nine digits,
\* and for n above 9 with the digits past the ninth truncated.
FractionOfAnyLengthAccepted ==
    (tag = GEN /\ MatchesFractionGrammar(data) /\ ValidGeneralizedFields(data)) =>
        /\ time.kind = "GeneralTime"
        /\ time.dt.nano = FractionNanos(SubSeq(data, 16, 15 + IF Len(data) - 16 <= 9 THEN Len(data) - 16 ELSE 9))

\* C4: UtcTime::from_primitive is Malformed on every content that does not
\* match ^[0-9]{12}Z$, and GeneralizedTime::from_primitive on every content
\* that does not match ^[0-9]{14}(\.[0-9]+)?Z$.
GrammarConformance ==
    /\ (tag = UTC /\ ~MatchesUtcGrammar(data)) => time.kind = "Malformed"
    /\ (tag = GEN /\ ~MatchesGeneralizedGrammar(data)) => time.kind = "Malformed"

\* C5: both decoders succeed only on a valid date and a time of day with
\* hour 0..23, minute 0..59 and second 0..59; seconds of 60 are Malformed.
CalendarValidation ==
    /\ (tag = UTC /\ MatchesUtcGrammar(data) /\ time.kind = "UtcTime")
            => ValidUtcFields(data)
    /\ (tag = GEN /\ MatchesGeneralizedGrammar(data) /\ time.kind = "GeneralTime")
            => ValidGeneralizedFields(data)

\* C6: a content accepted by UtcTime::from_primitive with year field YY
\* decodes to year 1900 + YY when YY >= 50 and to 2000 + YY when YY < 50,
\* and every decoded year lies in 1950..2049.
CenturyInference ==
    (tag = UTC /\ time.kind = "UtcTime") =>
        /\ time.dt.year \in 1950..2049
        /\ AllDigits(SubSeq(data, 1, 2)) =>
               time.dt.year = RolloverYear(Field(data, 1, 2))

CenturyBoundaryReached ==
    /\ tag = UTC /\ time.kind = "UtcTime"
    /\ SubSeq(data, 1, 2) = <<"5", "0">>
    /\ time.dt.year = 1950

\* C7: Time::take_from picks the decoder by the tag alone (a UtcTime-shaped
\* content under the GeneralizedTime tag is rejected, any other tag is
\* Malformed), and Time::encode_ref encodes the stored variant, so a value
\* decoded under a tag is encoded under that tag.
TagOnlyDispatch ==
    /\ tag = UTC =>
           time.kind = IF UtcTime_from_primitive(data).ok THEN "UtcTime" ELSE "Malformed"
    /\ tag = GEN =>
           time.kind = IF GeneralizedTime_from_primitive(data).ok
                       THEN "GeneralTime" ELSE "Malformed"
    /\ tag \notin {UTC, GEN, "NONE"} => time.kind = "Malformed"
    /\ (tag = GEN /\ Len(data) = 13) => time.kind = "Malformed"
    /\ pc = "encoded" =>
           /\ out.tag = IF time.kind = "UtcTime" THEN UTC ELSE GEN
           /\ tag # "NONE" => out.tag = tag

UtcShapeUnderGeneralizedTagRejected ==
    /\ tag = GEN /\ MatchesUtcGrammar(data) /\ ValidUtcFields(data)
    /\ time.kind = "Malformed"

\* C8 as stated: the value decoded from a content with a fraction has no
\* sub-second part and equals the value decoded from the content without
\* the fraction.
FractionDiscardedFromValue ==
    (tag = GEN /\ MatchesFractionGrammar(data) /\ time.kind = "GeneralTime") =>
        /\ time.dt.nano % LEAP_NANO = 0
        /\ GeneralizedTime_from_primitive(WithoutFraction(data)).ok
        /\ GeneralizedTime_from_primitive(WithoutFraction(data)).dt = Time_as_ref(time)

\* C8 as amended: the value decoded from a content with a fraction keeps the
\* fraction, padded to nine digits, as its nanoseconds; it equals the value
\* decoded from the content without the fraction exactly when the fraction
\* is zero, and the two values have the same encoding.
FractionKeptAsNanoseconds ==
    (tag = GEN /\ Len(data) > mandatory_len /\ time.kind = "GeneralTime") =>
        LET w == GeneralizedTime_from_primitive(WithoutFraction(data))
        IN  /\ Len(FractionOf(data)) <= 9
            /\ time.dt.nano % LEAP_NANO = FractionNanos(FractionOf(data))
            /\ w.ok => /\ (w.dt = Time_as_ref(time)) <=> (FractionNanos(FractionOf(data)) = 0)
                       /\ GeneralizedTime_to_string(w.dt) = GeneralizedTime_to_string(time.dt)

FractionKeptReached ==
    /\ tag = GEN /\ MatchesFractionGrammar(data) /\ time.kind = "GeneralTime"
    /\ time.dt.nano = 250000000
    /\ GeneralizedTime_from_primitive(WithoutFraction(data)).ok
    /\ GeneralizedTime_from_primitive(WithoutFraction(data)).dt # Time_as_ref(time)

\* C9: every UtcTime value, whether decoded, read from the clock or made
\* from an instant by Time::from, has a year in 1950..2049, so that decoding
\* its encoding gives the same year back.
UtcYearInRolloverRange ==
    time.kind = "UtcTime" =>
        /\ time.dt.year \in 1950..2049
        /\ UtcTime_from_primitive(UtcTime_to_string(time.dt)).ok
        /\ UtcTime_from_primitive(UtcTime_to_string(time.dt)).dt.year = time.dt.year

\* C10: the encoding of every UtcTime value, negative years included, is 13
\* bytes: six two-digit decimal fields (the year modulo 100 in 00..99) and
\* 'Z'; encoded_len is 13.
UtcEncodingWidth ==
    (pc = "encoded" /\ time.kind = "UtcTime") =>
        /\ out.len = 13
        /\ Len(out.bytes) = 13
        /\ AllDigits(SubSeq(out.bytes, 1, 12))
        /\ out.bytes[Len(out.bytes)] = "Z"

=============================================================================
